---- MODULE Spec2Model ----
(***************************************************************************)
(* Model of src/src/ui.rs: the UI session (struct UI and UI::update) and   *)
(* the scanner task built by UI::start_scan.                               *)
(*                                                                         *)
(* A scan is identified by the number of the StartScan that spawned it;    *)
(* its CancellationToken carries the same number.  Strings and paths are   *)
(* sequences of one-character strings, so that lengths are computed.       *)
(* The scanner advances one await at a time: every action of a task is     *)
(* the code from one await of start_scan to the next, and                  *)
(* run_until_cancelled lets it run only while the token is not cancelled.  *)
(***************************************************************************)
EXTENDS Integers, Sequences, FiniteSets, TLC

\* ---------------------------------------------------------------- bounds
MaxScans == 2       \* StartScan messages that spawn a task
MaxQueue == 1       \* progress messages one task may have in flight
MaxClock == 3       \* ticks a task's clock may advance
TickMs == 50        \* milliseconds in one tick of the clock
MaxEntries == 2     \* entries in a list of results that is exported
MaxNameLen == 2     \* characters in the file name of an exported entry

\* ------------------------------------------------------ program constants
DefaultLimit == 240
IntervalMs == 100

\* Option::None of cancellation_token, and of selected.
None == 0
NoFolder == << >>
\* Option::None of export_message; every message the code builds has text.
NoMessage == ""
Scans == 1..MaxScans

\* ------------------------------------------------------------ file system
\* The tree the scanner walks, in the order the listings yield it:
\*   /r            directory
\*   /r/bbb        entry whose metadata cannot be read
\*   /r/aaa        directory
\*   /r/aaa/c      file
\*   /r/dd         directory that cannot be listed
\*   /x            does not exist
\*   /e            directory with no entries
\* PathBuf::join
Join(dir, name) == dir \o <<"/">> \o name

RootR == <<"/", "r">>
RootX == <<"/", "x">>
RootE == <<"/", "e">>
PathB == Join(RootR, <<"b", "b", "b">>)
PathA == Join(RootR, <<"a", "a", "a">>)
PathC == Join(PathA, <<"c">>)
PathD == Join(RootR, <<"d", "d">>)

Folders == {RootR, RootX}

\* The folders of the single-scan sessions: also the one with no entries.
ScanFolders == Folders \cup {RootE}

\* fs::read_dir(path): Ok with the names next_entry will yield, or Err.
ReadDir(path) ==
    CASE path = RootR ->
           [ok |-> TRUE,
            names |-> << <<"b", "b", "b">>, <<"a", "a", "a">>, <<"d", "d">> >>]
      [] path = PathA -> [ok |-> TRUE, names |-> << <<"c">> >>]
      [] path = RootE -> [ok |-> TRUE, names |-> << >>]
      [] OTHER -> [ok |-> FALSE, names |-> << >>]

\* entry.metadata(): Ok(metadata) with metadata.is_dir(), or Err.
Metadata(path) ==
    CASE path = PathB -> [ok |-> FALSE, is_dir |-> FALSE]
      [] path \in {PathA, PathD} -> [ok |-> TRUE, is_dir |-> TRUE]
      [] OTHER -> [ok |-> TRUE, is_dir |-> FALSE]

\* ------------------------------------------------------------ limit input
Digits == <<"0", "1", "2", "3", "4", "5", "6", "7", "8", "9">>

IsDigit(c) == \E i \in 1..10 : Digits[i] = c

DigitVal(c) == (CHOOSE i \in 1..10 : Digits[i] = c) - 1

RECURSIVE DecimalValue(_)
DecimalValue(str) ==
    IF str = << >> THEN 0
    ELSE 10 * DecimalValue(SubSeq(str, 1, Len(str) - 1)) + DigitVal(str[Len(str)])

ParseUsizeLenient(str) ==
    IF str # << >> /\ \A i \in 1..Len(str) : IsDigit(str[i])
    THEN [ok |-> TRUE, value |-> DecimalValue(str)]
    ELSE [ok |-> TRUE, value |-> 0]

\* str::parse::<usize>: an optional leading '+', then one or more digits.
\* [ok |-> FALSE] stands for Err.
ParseUsize(str) ==
    LET body == IF str # << >> /\ str[1] = "+" THEN Tail(str) ELSE str
    IN IF body # << >> /\ \A i \in 1..Len(body) : IsDigit(body[i])
       THEN [ok |-> TRUE, value |-> DecimalValue(body)]
       ELSE [ok |-> FALSE, value |-> 0]

LimitInputs == { <<"5">>, <<"x">> }

\* Further texts the limit field can hold: empty, signed.
LimitTexts == LimitInputs \cup { << >>, <<"+", "7">>, <<"-", "5">> }

\* ------------------------------------------------------------------ state
VARIABLES
    selecting,           \* UI.selecting
    selected,            \* UI.selected: None or a folder
    cancellation_token,  \* UI.cancellation_token: None or the token of a scan
    paths_over_limit,    \* UI.paths_over_limit
    scanned,             \* UI.scanned
    limit_input,         \* UI.limit_input
    limit,               \* UI.limit
    scan_limit,          \* UI.scan_limit
    errors,              \* UI.errors
    exporting,           \* UI.exporting
    export_message,      \* UI.export_message: None or the text of a result
    export_success,      \* UI.export_success
    export_task,         \* the future ExportCsv spawned, and what it wrote
    cancelled,           \* cancelled[s]: token s has been cancelled
    numScans,            \* tasks spawned so far
    task,                \* task[s]: the locals and position of scanner s
    chan,                \* chan[s]: messages of task s not yet handled by update
    clock,               \* the latest Instant::now() any task has read, in ticks
    origin,              \* history: the scan each piece of session state came
                         \* from, and the messages handled without a folder
                         \* or a token since the latest scan started
    hist                 \* history: what each scanner did

vars == << selecting, selected, cancellation_token, paths_over_limit, scanned,
           limit_input, limit, scan_limit, errors, exporting, export_message,
           export_success, export_task, cancelled, numScans, task, chan, clock,
           origin, hist >>

exportVars == << exporting, export_message, export_success, export_task >>

taskVars == << task, chan, clock, hist >>

\* Everything but the export fields and the export future.
scanVars == << selecting, selected, cancellation_token, paths_over_limit, scanned,
               limit_input, limit, scan_limit, errors, cancelled, numScans, task,
               chan, clock, origin, hist >>

uiVars == << selecting, selected, cancellation_token, paths_over_limit, scanned,
             limit_input, limit, scan_limit, errors, origin, exportVars >>

IdleTask ==
    [pc |-> "none", root |-> << >>, limit |-> 0, stack |-> << >>, path |-> << >>,
     entries |-> << >>, entry_path |-> << >>, scanned |-> 0, over_limit |-> << >>,
     last_update |-> 0, now |-> 0]

IdleHist ==
    [fs_calls |-> 0, popped |-> << >>, pushed |-> << >>, failed |-> << >>,
     enumerated |-> << >>, classified |-> << >>, counted |-> << >>,
     sent |-> << >>, outcome |-> "none", start_limit |-> 0]

\* No export future.
IdleExport ==
    [pc |-> "none", paths_to_export |-> << >>, file_handle |-> "",
     csv_content |-> << >>, writes |-> 0, written |-> << >>,
     result |-> [ok |-> FALSE, msg |-> ""], completions |-> 0]

\* History of a session in which no scan has started.
NoOrigin ==
    [scanned |-> 0, paths |-> << >>, errors |-> << >>, idle_abort |-> FALSE,
     idle_start |-> FALSE]

Init ==
    /\ selecting = FALSE
    /\ selected = NoFolder
    /\ cancellation_token = None
    /\ paths_over_limit = << >>
    /\ scanned = 0
    /\ limit_input = <<"2", "4", "0">>
    /\ limit = DefaultLimit
    /\ scan_limit = DefaultLimit
    /\ errors = << >>
    /\ exporting = FALSE
    /\ export_message = NoMessage
    /\ export_success = FALSE
    /\ export_task = IdleExport
    /\ cancelled = [s \in Scans |-> FALSE]
    /\ numScans = 0
    /\ task = [s \in Scans |-> IdleTask]
    /\ chan = [s \in Scans |-> << >>]
    /\ clock = 0
    /\ origin = NoOrigin
    /\ hist = [s \in Scans |-> IdleHist]

\* ------------------------------------------------------------- UI::update
\* The inputs that only prepare a later StartScan are explored while a
\* further scan can still start.
MoreScans == numScans < MaxScans

\* Message::SelectFolder.  The button is offered only while no dialog is open.
SelectFolder ==
    /\ MoreScans
    /\ ~selecting
    /\ selecting' = TRUE
    /\ UNCHANGED << selected, cancellation_token, paths_over_limit, scanned,
                    limit_input, limit, scan_limit, errors, origin, cancelled,
                    numScans, taskVars, exportVars >>

\* Message::SelectedFolder(choice): the dialog's answer, None or a folder.
SelectedFolder(choice) ==
    /\ selecting
    /\ selecting' = FALSE
    /\ selected' = IF choice # NoFolder THEN choice ELSE selected
    /\ UNCHANGED << cancellation_token, paths_over_limit, scanned, limit_input,
                    limit, scan_limit, errors, origin, cancelled, numScans,
                    taskVars, exportVars >>

\* self.cancellation_token.take() followed by token.cancel().
TakeAndCancel ==
    /\ cancelled' = IF cancellation_token # None
                    THEN [cancelled EXCEPT ![cancellation_token] = TRUE]
                    ELSE cancelled
    /\ cancellation_token' = None

AbortScanResets ==
    /\ TakeAndCancel
    /\ origin' = IF cancellation_token = None
                 THEN [origin EXCEPT !.idle_abort = TRUE]
                 ELSE origin
    /\ scanned' = 0
    /\ UNCHANGED << selecting, selected, paths_over_limit, limit_input, limit,
                    scan_limit, errors, numScans, taskVars, exportVars >>

\* Message::AbortScan.
AbortScan ==
    /\ TakeAndCancel
    /\ origin' = IF cancellation_token = None
                 THEN [origin EXCEPT !.idle_abort = TRUE]
                 ELSE origin
    /\ UNCHANGED << selecting, selected, paths_over_limit, scanned, limit_input,
                    limit, scan_limit, errors, numScans, taskVars, exportVars >>

\* Message::LimitChanged(str).
LimitChanged(str) ==
    /\ MoreScans
    /\ limit_input' = str
    /\ limit' = IF ParseUsize(str).ok THEN ParseUsize(str).value ELSE limit
    /\ UNCHANGED << selecting, selected, cancellation_token, paths_over_limit,
                    scanned, scan_limit, errors, origin, cancelled, numScans,
                    taskVars, exportVars >>

\* The locals of start_scan before the task is first polled.
NewTask(root, lim) ==
    [IdleTask EXCEPT !.pc = "start", !.root = root, !.limit = lim,
                     !.stack = << root >>]

HasFolderAlways == TRUE

\* if let Some(ref folder) = self.selected
HasFolder == selected # NoFolder

\* Message::StartScan.  It reaches update from the Start Scan button and from
\* the limit field's on_submit, which is offered in every state.
StartScan ==
    IF HasFolder
    THEN /\ numScans < MaxScans
         /\ LET s == numScans + 1
            IN /\ paths_over_limit' = << >>
               /\ errors' = << >>
               /\ scanned' = 0
               /\ cancellation_token' = s
               /\ scan_limit' = limit
               /\ numScans' = s
               /\ task' = [task EXCEPT ![s] = NewTask(selected, limit)]
               /\ origin' = [NoOrigin EXCEPT !.scanned = s]
               /\ hist' = [hist EXCEPT ![s].outcome = "running",
                                       ![s].pushed = << selected >>,
                                       ![s].start_limit = limit]
         /\ UNCHANGED << selecting, selected, limit_input, limit, cancelled,
                         chan, clock, exportVars >>
    ELSE /\ origin' = [origin EXCEPT !.idle_start = TRUE]
         /\ UNCHANGED << selecting, selected, cancellation_token,
                         paths_over_limit, scanned, limit_input, limit,
                         scan_limit, errors, cancelled, numScans, taskVars,
                         exportVars >>

\* Message::ScanUpdate { now_scanned, new_paths_over_limit } of task s.
DeliverScanUpdate(s) ==
    /\ chan[s] # << >>
    /\ Head(chan[s]).type = "ScanUpdate"
    /\ LET m == Head(chan[s])
       IN /\ scanned' = m.now_scanned
          /\ paths_over_limit' = paths_over_limit \o m.new_paths_over_limit
          /\ origin' = [origin EXCEPT
                          !.scanned = s,
                          !.paths = @ \o [i \in 1..Len(m.new_paths_over_limit) |-> s]]
    /\ chan' = [chan EXCEPT ![s] = Tail(@)]
    /\ UNCHANGED << selecting, selected, cancellation_token, limit_input, limit,
                    scan_limit, errors, cancelled, numScans, task, clock, hist,
                    exportVars >>

\* Message::Error(err) of task s.
DeliverError(s) ==
    /\ chan[s] # << >>
    /\ Head(chan[s]).type = "Error"
    /\ errors' = Append(errors, Head(chan[s]).err)
    /\ origin' = [origin EXCEPT !.errors = Append(@, s)]
    /\ chan' = [chan EXCEPT ![s] = Tail(@)]
    /\ UNCHANGED << selecting, selected, cancellation_token, paths_over_limit,
                    scanned, limit_input, limit, scan_limit, cancelled, numScans,
                    task, clock, hist, exportVars >>

\* Message::ScanComplete of task s.
DeliverScanComplete(s) ==
    /\ chan[s] # << >>
    /\ Head(chan[s]).type = "ScanComplete"
    /\ TakeAndCancel
    /\ chan' = [chan EXCEPT ![s] = Tail(@)]
    /\ UNCHANGED << selecting, selected, paths_over_limit, scanned, limit_input,
                    limit, scan_limit, errors, origin, numScans, task, clock,
                    hist, exportVars >>

\* --------------------------------------------------------------- start_scan
RunningPcs == {"start", "loop", "next_entry", "metadata", "send_meta_err",
               "send_update", "send_dir_err"}

RunIgnoringCancellation(s) == TRUE

RunUntilCancelledAtLoopTop(s) == ~cancelled[s] \/ task[s].pc \notin {"start", "loop"}

\* token.run_until_cancelled(..): the wrapped future is polled only while the
\* token is not cancelled.
RunUntilCancelled(s) == ~cancelled[s]

Runs(s, pcs) == task[s].pc \in pcs /\ RunUntilCancelled(s)

\* sender.send(..).await completes once the channel takes the message.
CanSend(s) == Len(chan[s]) < MaxQueue

IsOverLimitOrAtLimit(path_length, lim) == path_length >= lim

LiveLimit(t) == limit

\* The limit parameter of start_scan, moved into the sipper's future.
CapturedLimit(t) == t.limit

\* path_length > limit
IsOverLimit(path_length, lim) == path_length > lim

\* as_os_str().to_string_lossy().to_string(): bytes that are not UTF-8 become
\* U+FFFD.
ToStringLossy(os_str) ==
    [i \in 1..Len(os_str) |-> IF os_str[i] = "\\xFF" THEN "U+FFFD" ELSE os_str[i]]

IntervalElapsedOrEqual(now, last_update) ==
    (now - last_update) * TickMs >= IntervalMs

\* now - last_update > Duration::from_millis(100)
IntervalElapsed(now, last_update) == (now - last_update) * TickMs > IntervalMs

PushIfDirUnderLimit(stack, md, entry_path) ==
    IF md.is_dir /\ ~(Len(entry_path) > scan_limit)
    THEN Append(stack, entry_path)
    ELSE stack

\* if metadata.is_dir() { stack.push(entry_path) }
PushIfDir(stack, md, entry_path) ==
    IF md.is_dir THEN Append(stack, entry_path) ELSE stack

\* Message::ScanUpdate { now_scanned: scanned, new_paths_over_limit:
\* mem::take(&mut over_limit) }
ScanUpdateMsg(t) ==
    [type |-> "ScanUpdate", now_scanned |-> t.scanned,
     new_paths_over_limit |-> t.over_limit]

ErrorMsg(kind, path) == [type |-> "Error", err |-> [kind |-> kind, path |-> path]]

\* Task::sip(sipper, |value| value, |_| Message::ScanComplete): the message
\* that follows the sipper's return.
ScanCompleteMsg == [type |-> "ScanComplete"]

\* Instant::now(): the clock never runs backwards.
Instants == clock..MaxClock

\* scanned += 1; let now = Instant::now(); then the throttle test, which
\* leads to the send of a ScanUpdate or back to next_entry.
AfterEntry(t, now) ==
    LET counted == [t EXCEPT !.scanned = @ + 1]
    IN IF IntervalElapsed(now, t.last_update)
       THEN [counted EXCEPT !.pc = "send_update", !.now = now]
       ELSE [counted EXCEPT !.pc = "next_entry", !.entry_path = << >>]

AfterDirErrEndsScan(t) == [t EXCEPT !.pc = "loop", !.path = << >>, !.stack = << >>]

AfterMetaErrSkipsEntry(t, now) == [t EXCEPT !.pc = "next_entry", !.entry_path = << >>]

\* After the Error of a failed read_dir the match arm ends: the next stack item.
AfterDirErr(t) == [t EXCEPT !.pc = "loop", !.path = << >>]

\* After the Error of a failed metadata the match ends: the entry is counted.
AfterMetaErr(t, now) == AfterEntry(t, now)

\* stack.pop() gave a path: fs::read_dir(&path).await.  The first poll also runs
\* the lines before the loop, with last_update = Instant::now().
PopReadDir(s) ==
    /\ Runs(s, {"start", "loop"})
    /\ task[s].stack # << >>
    /\ LET t == IF task[s].pc = "start"
                THEN [task[s] EXCEPT !.last_update = clock]
                ELSE task[s]
           path == t.stack[Len(t.stack)]
           rest == SubSeq(t.stack, 1, Len(t.stack) - 1)
           r == ReadDir(path)
       IN /\ task' = [task EXCEPT ![s] =
                        IF r.ok
                        THEN [t EXCEPT !.pc = "next_entry", !.stack = rest,
                                       !.path = path, !.entries = r.names]
                        ELSE [t EXCEPT !.pc = "send_dir_err", !.stack = rest,
                                       !.path = path]]
          /\ hist' = [hist EXCEPT
                        ![s].fs_calls = @ + 1,
                        ![s].popped = Append(@, path),
                        ![s].failed = IF r.ok THEN @ ELSE Append(@, path)]
    /\ UNCHANGED << uiVars, clock, cancelled, numScans, chan >>

\* Err(err) of read_dir: send Message::Error, then the next stack item.
SendDirErr(s) ==
    /\ Runs(s, {"send_dir_err"})
    /\ CanSend(s)
    /\ LET m == ErrorMsg("read_dir", task[s].path)
       IN /\ chan' = [chan EXCEPT ![s] = Append(@, m)]
          /\ hist' = [hist EXCEPT ![s].sent = Append(@, m)]
    /\ task' = [task EXCEPT ![s] = AfterDirErr(task[s])]
    /\ UNCHANGED << uiVars, clock, cancelled, numScans >>

\* entries.next_entry().await, and the classification of the entry it gives.
NextEntry(s) ==
    /\ Runs(s, {"next_entry"})
    /\ LET t == task[s]
       IN IF t.entries = << >>
          THEN /\ task' = [task EXCEPT ![s].pc = "loop", ![s].path = << >>]
               /\ hist' = [hist EXCEPT ![s].fs_calls = @ + 1]
          ELSE LET entry_path == Join(t.path, Head(t.entries))
                   path_length == Len(entry_path)
                   found == [path |-> ToStringLossy(entry_path),
                             size |-> path_length]
                   over == IsOverLimit(path_length, CapturedLimit(t))
               IN /\ task' = [task EXCEPT
                                ![s].pc = "metadata",
                                ![s].entries = Tail(@),
                                ![s].entry_path = entry_path,
                                ![s].over_limit = IF over THEN Append(@, found) ELSE @]
                  /\ hist' = [hist EXCEPT
                                ![s].fs_calls = @ + 1,
                                ![s].enumerated = Append(@, entry_path),
                                ![s].classified = IF over THEN Append(@, found) ELSE @]
    /\ UNCHANGED << uiVars, clock, cancelled, numScans, chan >>

\* entry.metadata().await: Ok pushes a directory and counts the entry, Err
\* leads to the send of Message::Error.
MetadataStep(s, now) ==
    /\ Runs(s, {"metadata"})
    /\ LET t == task[s]
           md == Metadata(t.entry_path)
       IN IF md.ok
          THEN LET stack == PushIfDir(t.stack, md, t.entry_path)
               IN   /\ task' = [task EXCEPT ![s] =
                                  AfterEntry([t EXCEPT !.stack = stack], now)]
                    /\ clock' = now
                    /\ hist' = [hist EXCEPT
                                  ![s].fs_calls = @ + 1,
                                  ![s].pushed = IF stack # t.stack
                                                THEN Append(@, t.entry_path) ELSE @,
                                  ![s].counted = Append(@, t.entry_path)]
          ELSE /\ task' = [task EXCEPT ![s].pc = "send_meta_err"]
               /\ hist' = [hist EXCEPT ![s].fs_calls = @ + 1]
               /\ clock' = clock
    /\ UNCHANGED << uiVars, cancelled, numScans, chan >>

\* Err(err) of metadata: send Message::Error, then count the entry.
SendMetaErr(s, now) ==
    /\ Runs(s, {"send_meta_err"})
    /\ CanSend(s)
    /\ task' = [task EXCEPT ![s] = AfterMetaErr(task[s], now)]
    /\ LET m == ErrorMsg("metadata", task[s].entry_path)
       IN /\ chan' = [chan EXCEPT ![s] = Append(@, m)]
          /\ hist' = [hist EXCEPT
                        ![s].sent = Append(@, m),
                        ![s].counted = IF task'[s].scanned # task[s].scanned
                                       THEN Append(@, task[s].entry_path) ELSE @]
    /\ clock' = now
    /\ UNCHANGED << uiVars, cancelled, numScans >>

\* The throttled Message::ScanUpdate; last_update = now.
SendUpdate(s) ==
    /\ Runs(s, {"send_update"})
    /\ CanSend(s)
    /\ LET m == ScanUpdateMsg(task[s])
       IN /\ chan' = [chan EXCEPT ![s] = Append(@, m)]
          /\ hist' = [hist EXCEPT ![s].sent = Append(@, m)]
    /\ task' = [task EXCEPT ![s].pc = "next_entry", ![s].over_limit = << >>,
                            ![s].last_update = task[s].now, ![s].now = 0,
                            ![s].entry_path = << >>]
    /\ UNCHANGED << uiVars, clock, cancelled, numScans >>

SendFinalIfPending(s) ==
    /\ Runs(s, {"loop"})
    /\ task[s].stack = << >>
    /\ CanSend(s)
    /\ LET m == ScanUpdateMsg(task[s])
           out == IF task[s].over_limit = << >>
                  THEN << ScanCompleteMsg >>
                  ELSE << m, ScanCompleteMsg >>
       IN /\ chan' = [chan EXCEPT ![s] = @ \o out]
          /\ hist' = [hist EXCEPT ![s].sent = @ \o out,
                                  ![s].outcome = "Completed"]
    /\ task' = [task EXCEPT ![s].pc = "done", ![s].over_limit = << >>]
    /\ UNCHANGED << uiVars, clock, cancelled, numScans >>

\* stack.pop() gave None: the ScanUpdate after the loop.  The wrapped future
\* and the sipper return, and ScanComplete follows.
SendFinal(s) ==
    /\ Runs(s, {"loop"})
    /\ task[s].stack = << >>
    /\ CanSend(s)
    /\ LET m == ScanUpdateMsg(task[s])
       IN /\ chan' = [chan EXCEPT ![s] = @ \o << m, ScanCompleteMsg >>]
          /\ hist' = [hist EXCEPT ![s].sent = @ \o << m, ScanCompleteMsg >>,
                                  ![s].outcome = "Completed"]
    /\ task' = [task EXCEPT ![s].pc = "done", ![s].over_limit = << >>]
    /\ UNCHANGED << uiVars, clock, cancelled, numScans >>

\* run_until_cancelled finds the token cancelled: it returns None, the wrapped
\* future is dropped where it was suspended, the sipper returns and
\* ScanComplete follows.
Dropped(s) ==
    /\ task[s].pc \in RunningPcs
    /\ ~RunUntilCancelled(s)
    /\ task' = [task EXCEPT ![s].pc = "done"]
    /\ chan' = [chan EXCEPT ![s] = Append(@, ScanCompleteMsg)]
    /\ hist' = [hist EXCEPT ![s].sent = Append(@, ScanCompleteMsg),
                            ![s].outcome = "Cancelled"]
    /\ UNCHANGED << uiVars, clock, cancelled, numScans >>

\* ------------------------------------------------------------------ export
\* "Path,Length\n"
Header == <<"P", "a", "t", "h", ",", "L", "e", "n", "g", "t", "h", "\n">>

CsvEscapeNone(str) == str

\* str.replace("\"", "\"\"")
RECURSIVE CsvEscape(_)
CsvEscape(str) ==
    IF str = << >> THEN << >>
    ELSE (IF Head(str) = "\"" THEN <<"\"", "\"">> ELSE << Head(str) >>)
             \o CsvEscape(Tail(str))

\* Display of an unsigned integer: its decimal digits.
RECURSIVE Decimal(_)
Decimal(n) ==
    IF n < 10 THEN << Digits[n + 1] >>
    ELSE Decimal(n \div 10) \o << Digits[(n % 10) + 1] >>

\* format!("\"{}\",{}\n", path.path.replace("\"", "\"\""), path.size)
CsvRecord(entry) ==
    <<"\"">> \o CsvEscape(entry.path) \o <<"\"", ",">> \o Decimal(entry.size)
        \o <<"\n">>

\* for path in &paths_to_export { csv_content.push_str(..) }
RECURSIVE CsvRecords(_)
CsvRecords(entries) ==
    IF entries = << >> THEN << >>
    ELSE CsvRecord(Head(entries)) \o CsvRecords(Tail(entries))

\* csv_content once the loop has ended.
RenderCsv(entries) == Header \o CsvRecords(entries)

\* Result<String, String> of the export future.
Ok(msg) == [ok |-> TRUE, msg |-> msg]

Err(msg) == [ok |-> FALSE, msg |-> msg]

\* The answers of the save dialog: None or a destination; the errors a write
\* can fail with.
NoFile == ""
Destinations == {"/out.csv"}
IoErrors == {"Permission denied"}

\* The results a finished scan can have left in paths_over_limit: entries of
\* the folder /q whose names hold double quotes, and one name with a comma
\* that makes the length two digits long.
ExportRoot == <<"/", "q">>

LongName == <<",", "\"">> \o [i \in 1..8 |-> "a"]

ExportNames ==
    UNION {[1..n -> {"a", "\""}] : n \in 1..MaxNameLen} \cup {LongName}

ExportEntries ==
    {[path |-> ToStringLossy(Join(ExportRoot, name)),
      size |-> Len(Join(ExportRoot, name))] : name \in ExportNames}

ExportInputs == UNION {[1..n -> ExportEntries] : n \in 1..MaxEntries}

\* Message::ExportCsv.  The button is offered while there are results, no
\* export is under way and no scan holds the token.
ExportCsv ==
    /\ paths_over_limit # << >>
    /\ ~exporting
    /\ cancellation_token = None
    /\ exporting' = TRUE
    /\ export_message' = NoMessage
    /\ export_task' = [IdleExport EXCEPT !.pc = "save_file",
                                         !.paths_to_export = paths_over_limit]
    /\ UNCHANGED << export_success, scanVars >>

\* save_file().await gives None: the future ends with Err("Export cancelled").
\* It gives a file: csv_content is built, and tokio::fs::write is called.
SaveFile(answer) ==
    /\ export_task.pc = "save_file"
    /\ export_task' =
           IF answer = NoFile
           THEN [export_task EXCEPT !.pc = "complete",
                                    !.result = Err("Export cancelled")]
           ELSE [export_task EXCEPT
                    !.pc = "write",
                    !.file_handle = answer,
                    !.csv_content = RenderCsv(export_task.paths_to_export)]
    /\ UNCHANGED << exporting, export_message, export_success, scanVars >>

\* tokio::fs::write(..).await: Ok(_) or Err(e), e = NoFile standing for Ok.
WriteFile(e) ==
    /\ export_task.pc = "write"
    /\ export_task' =
           [export_task EXCEPT
              !.pc = "complete",
              !.writes = @ + 1,
              !.written = IF e = NoFile THEN export_task.csv_content ELSE @,
              !.result =
                  IF e = NoFile
                  THEN Ok("Exported " \o ToString(Len(export_task.paths_to_export))
                              \o " paths to " \o export_task.file_handle)
                  ELSE Err("Failed to write CSV file: " \o e)]
    /\ UNCHANGED << exporting, export_message, export_success, scanVars >>

ExportSuccessAlways(result) == TRUE

\* export_success after CsvExportComplete(result).
ExportSuccess(result) == result.ok

\* Message::CsvExportComplete(result).
DeliverCsvExportComplete ==
    /\ export_task.pc = "complete"
    /\ exporting' = FALSE
    /\ export_message' = export_task.result.msg
    /\ export_success' = ExportSuccess(export_task.result)
    /\ export_task' = [export_task EXCEPT !.pc = "done", !.completions = @ + 1]
    /\ UNCHANGED scanVars

\* A session of up to MaxScans scans, which may overlap.  The clock stands
\* still, so no interval elapses and the throttled ScanUpdate is never due.
Next ==
    \/ SelectFolder
    \/ \E choice \in {NoFolder} \cup Folders : SelectedFolder(choice)
    \/ AbortScan
    \/ \E str \in LimitInputs : LimitChanged(str)
    \/ StartScan
    \/ \E s \in Scans : DeliverScanUpdate(s)
    \/ \E s \in Scans : DeliverError(s)
    \/ \E s \in Scans : DeliverScanComplete(s)
    \/ \E s \in Scans : PopReadDir(s)
    \/ \E s \in Scans : SendDirErr(s)
    \/ \E s \in Scans : NextEntry(s)
    \/ \E s \in Scans : MetadataStep(s, clock)
    \/ \E s \in Scans : SendMetaErr(s, clock)
    \/ \E s \in Scans : SendFinal(s)
    \/ \E s \in Scans : Dropped(s)

Spec == Init /\ [][Next]_vars

\* A session of one scan, with every instant the clock can show.
NextScan ==
    \/ SelectFolder
    \/ \E choice \in {NoFolder} \cup ScanFolders : SelectedFolder(choice)
    \/ AbortScan
    \/ \E str \in LimitTexts : LimitChanged(str)
    \/ (numScans = 0 /\ StartScan)
    \/ \E s \in Scans : DeliverScanUpdate(s)
    \/ \E s \in Scans : DeliverError(s)
    \/ \E s \in Scans : DeliverScanComplete(s)
    \/ \E s \in Scans : PopReadDir(s)
    \/ \E s \in Scans : SendDirErr(s)
    \/ \E s \in Scans : NextEntry(s)
    \/ \E s \in Scans, now \in Instants : MetadataStep(s, now)
    \/ \E s \in Scans, now \in Instants : SendMetaErr(s, now)
    \/ \E s \in Scans : SendUpdate(s)
    \/ \E s \in Scans : SendFinal(s)
    \/ \E s \in Scans : Dropped(s)

SpecScan == Init /\ [][NextScan]_vars

\* The scheduling of a scan: the runtime polls a task that can advance, and
\* hands every message in flight to update.
TaskStep(s) ==
    \/ PopReadDir(s)
    \/ SendDirErr(s)
    \/ NextEntry(s)
    \/ \E now \in Instants : MetadataStep(s, now)
    \/ \E now \in Instants : SendMetaErr(s, now)
    \/ SendUpdate(s)
    \/ SendFinal(s)
    \/ Dropped(s)

Deliver(s) == DeliverScanUpdate(s) \/ DeliverError(s) \/ DeliverScanComplete(s)

Fairness == \A s \in Scans : WF_vars(TaskStep(s)) /\ WF_vars(Deliver(s))

\* A session of one scan under that scheduling, with the limit field set to
\* the texts of LimitInputs.
NextLive ==
    \/ SelectFolder
    \/ \E choice \in {NoFolder} \cup ScanFolders : SelectedFolder(choice)
    \/ AbortScan
    \/ \E str \in LimitInputs : LimitChanged(str)
    \/ (numScans = 0 /\ StartScan)
    \/ \E s \in Scans : DeliverScanUpdate(s)
    \/ \E s \in Scans : DeliverError(s)
    \/ \E s \in Scans : DeliverScanComplete(s)
    \/ \E s \in Scans : PopReadDir(s)
    \/ \E s \in Scans : SendDirErr(s)
    \/ \E s \in Scans : NextEntry(s)
    \/ \E s \in Scans, now \in Instants : MetadataStep(s, now)
    \/ \E s \in Scans, now \in Instants : SendMetaErr(s, now)
    \/ \E s \in Scans : SendUpdate(s)
    \/ \E s \in Scans : SendFinal(s)
    \/ \E s \in Scans : Dropped(s)

SpecLive == Init /\ [][NextLive]_vars /\ Fairness

\* A session whose last scan has ended and left results: the exports.
InitExport ==
    /\ selecting = FALSE
    /\ selected = ExportRoot
    /\ cancellation_token = None
    /\ paths_over_limit \in ExportInputs
    /\ scanned = Len(paths_over_limit)
    /\ limit_input = <<"3">>
    /\ limit = ParseUsize(limit_input).value
    /\ scan_limit = limit
    /\ errors = << >>
    /\ exporting = FALSE
    /\ export_message = NoMessage
    /\ export_success = FALSE
    /\ export_task = IdleExport
    /\ cancelled = [s \in Scans |-> FALSE]
    /\ numScans = 0
    /\ task = [s \in Scans |-> IdleTask]
    /\ chan = [s \in Scans |-> << >>]
    /\ clock = 0
    /\ origin = NoOrigin
    /\ hist = [s \in Scans |-> IdleHist]

NextExport ==
    \/ ExportCsv
    \/ \E answer \in {NoFile} \cup Destinations : SaveFile(answer)
    \/ \E e \in {NoFile} \cup IoErrors : WriteFile(e)
    \/ DeliverCsvExportComplete

SpecExport == InitExport /\ [][NextExport]_vars

\* ------------------------------------------------------------ properties
Range(seq) == {seq[i] : i \in DOMAIN seq}

Count(seq, x) == Cardinality({i \in DOMAIN seq : seq[i] = x})

\* The ScanUpdate messages among those a task has sent, in order.
Updates(s) == SelectSeq(hist[s].sent, LAMBDA m : m.type = "ScanUpdate")

\* The Error messages among those a task has sent, in order.
ErrorsSent(s) == SelectSeq(hist[s].sent, LAMBDA m : m.type = "Error")

RECURSIVE Concat(_)
Concat(updates) ==
    IF updates = << >> THEN << >>
    ELSE Head(updates).new_paths_over_limit \o Concat(Tail(updates))

\* The concatenation of new_paths_over_limit over a task's ScanUpdate messages.
Reported(s) == Concat(Updates(s))

\* The sipper of task s has returned and update has handled its ScanComplete.
CompleteDelivered(s) == task[s].pc = "done" /\ chan[s] = << >>

\* Every entry of every listing the task started has been counted.
ListingsProcessed(s) ==
    \A d \in Range(hist[s].popped) :
        \A i \in DOMAIN ReadDir(d).names :
            Join(d, ReadDir(d).names[i]) \in Range(hist[s].counted)

\* C1: after StartScan, scanned and every element of paths_over_limit and of
\* errors come from the most recently started scan; no message of an earlier
\* scan changes them.
C1_OnlyLatestScanInSession ==
    numScans > 0 =>
        /\ origin.scanned = numScans
        /\ \A i \in DOMAIN origin.paths : origin.paths[i] = numScans
        /\ \A i \in DOMAIN origin.errors : origin.errors[i] = numScans

\* C2: a cancelled scan still sends a final ScanUpdate with the over-limit
\* entries it had not sent, so once its ScanComplete is handled
\* paths_over_limit holds every entry the scanner classified as over limit.
C2_CancelledScanFlushes ==
    \A s \in Scans :
        (hist[s].outcome = "Cancelled" /\ CompleteDelivered(s)) =>
            paths_over_limit = hist[s].classified

\* C3: when a scan has run to exhaustion, the concatenation of
\* new_paths_over_limit over its ScanUpdate messages holds each enumerated
\* entry longer than the limit exactly once, with size equal to its length, and
\* nothing else: no entry of length at most the limit.
C3_ExactlyTheOverLimitEntries ==
    \A s \in Scans :
        hist[s].outcome = "Completed" =>
            /\ \A e \in Range(hist[s].enumerated) :
                   Len(e) > task[s].limit =>
                       Count(Reported(s), [path |-> e, size |-> Len(e)]) = 1
            /\ \A i \in DOMAIN Reported(s) :
                   /\ Reported(s)[i].path \in Range(hist[s].enumerated)
                   /\ Reported(s)[i].size = Len(Reported(s)[i].path)
                   /\ ~(Len(Reported(s)[i].path) <= task[s].limit)
                   /\ Count(Reported(s), Reported(s)[i]) = 1

\* C3 witness: a scan with limit 5 ran to exhaustion over /r, met an entry
\* exactly at the limit, and reported its over-limit entries in two messages.
C3_Witness ==
    \E s \in Scans :
        /\ hist[s].outcome = "Completed"
        /\ task[s].limit = 5
        /\ PathD \in Range(hist[s].enumerated)
        /\ Len(PathD) = 5
        /\ Len(Updates(s)) >= 2
        /\ Updates(s)[1].new_paths_over_limit # << >>
        /\ Len(Reported(s)) = 3

\* C7: there are never two scanner tasks running whose tokens are both
\* uncancelled.
C7_AtMostOneActiveScan ==
    Cardinality({s \in Scans : task[s].pc \in RunningPcs /\ ~cancelled[s]}) <= 1

\* now_scanned of the last ScanUpdate a task has sent (0 when it sent none).
LastScanned(s) ==
    IF Updates(s) = << >> THEN 0 ELSE Updates(s)[Len(Updates(s))].now_scanned

NonDecreasing(s) ==
    \A i, j \in DOMAIN Updates(s) :
        i <= j => Updates(s)[i].now_scanned <= Updates(s)[j].now_scanned

\* C4: for every scan that has ended, by exhaustion or by cancellation, the
\* now_scanned values of its ScanUpdate messages are non-decreasing and the
\* last of them equals the number of entries the scanner visited.
C4_LastUpdateCountsVisited ==
    \A s \in Scans :
        task[s].pc = "done" =>
            /\ NonDecreasing(s)
            /\ LastScanned(s) = Len(hist[s].counted)

\* C5: once the token of a scan is cancelled, its scanner issues no further
\* filesystem call (read_dir, next_entry, metadata) and pops no further
\* directory from the stack.
C5_NoFilesystemCallAfterCancel ==
    [][\A s \in Scans :
          cancelled[s] =>
              /\ hist'[s].fs_calls = hist[s].fs_calls
              /\ hist'[s].popped = hist[s].popped
              /\ task'[s].stack = task[s].stack]_vars

\* C5 witness: a token is cancelled while its scanner is suspended with
\* directories still on the stack and filesystem calls behind it.
C5_Witness ==
    \E s \in Scans :
        /\ cancelled[s]
        /\ task[s].pc \in RunningPcs
        /\ task[s].stack # << >>
        /\ hist[s].fs_calls > 0

ErrorsRecorded(s) ==
    errors = [i \in DOMAIN ErrorsSent(s) |-> ErrorsSent(s)[i].err]

\* The task's last two messages are a ScanUpdate and ScanComplete.
EndsWithFinalUpdate(s) ==
    LET sent == hist[s].sent
    IN /\ Len(sent) >= 2
       /\ sent[Len(sent) - 1].type = "ScanUpdate"
       /\ sent[Len(sent)] = ScanCompleteMsg

C8_RootWitness ==
    \E s \in Scans :
        /\ hist[s].outcome = "Completed"
        /\ CompleteDelivered(s)
        /\ task[s].root = RootX

\* C9: in a scan that ran to exhaustion, each entry whose metadata failed gave
\* exactly one Error naming it (and no other entry gave one), was not pushed,
\* was classified against the limit and was counted; the other entries of its
\* directory and the other directories were processed, and the final
\* now_scanned counts every enumerated entry.
C9_MetadataErrorIsLocal ==
    \A s \in Scans :
        hist[s].outcome = "Completed" =>
            /\ \A e \in Range(hist[s].enumerated) :
                   /\ Count(hist[s].sent, ErrorMsg("metadata", e)) =
                          IF Metadata(e).ok THEN 0 ELSE 1
                   /\ ~Metadata(e).ok =>
                          /\ e \notin Range(hist[s].pushed)
                          /\ Count(hist[s].counted, e) = 1
                          /\ Count(Reported(s), [path |-> e, size |-> Len(e)]) =
                                 IF Len(e) > task[s].limit THEN 1 ELSE 0
            /\ ListingsProcessed(s)
            /\ Range(hist[s].pushed) = Range(hist[s].popped)
            /\ LastScanned(s) = Len(hist[s].enumerated)

\* C9 witness: the scan of /r with limit 5 ran to exhaustion; the metadata of
\* /r/bbb (over the limit) failed and the entries after it were counted.
C9_Witness ==
    \E s \in Scans :
        /\ hist[s].outcome = "Completed"
        /\ task[s].limit = 5
        /\ ErrorMsg("metadata", PathB) \in Range(hist[s].sent)
        /\ hist[s].counted = << PathB, PathA, PathD, PathC >>

\* C10: in a scan that ran to exhaustion, a directory whose own path is over
\* the limit was reported as over limit and pushed, it was popped, and where
\* it could be listed every entry beneath it was enumerated and counted in
\* the final now_scanned.
C10_OverLimitDirectoryDescended ==
    \A s \in Scans :
        hist[s].outcome = "Completed" =>
            \A e \in Range(hist[s].enumerated) :
                (Len(e) > task[s].limit /\ Metadata(e).ok /\ Metadata(e).is_dir) =>
                    /\ Count(Reported(s), [path |-> e, size |-> Len(e)]) = 1
                    /\ e \in Range(hist[s].pushed)
                    /\ e \in Range(hist[s].popped)
                    /\ \A i \in DOMAIN ReadDir(e).names :
                           /\ Join(e, ReadDir(e).names[i]) \in Range(hist[s].enumerated)
                           /\ Join(e, ReadDir(e).names[i]) \in Range(hist[s].counted)
                    /\ LastScanned(s) = Len(hist[s].enumerated)

\* C10 witness: the scan of /r with limit 5 ran to exhaustion; /r/aaa, a
\* directory of length 6, was reported and its entry /r/aaa/c was counted, and
\* update has handled every message.
C10_Witness ==
    \E s \in Scans :
        /\ hist[s].outcome = "Completed"
        /\ CompleteDelivered(s)
        /\ task[s].limit = 5
        /\ [path |-> PathA, size |-> 6] \in Range(paths_over_limit)
        /\ PathC \in Range(hist[s].counted)
        /\ scanned = 4

\* The over-limit records of the entries longer than lim, in order.
OverLimitOf(entries, lim) ==
    LET over == SelectSeq(entries, LAMBDA e : Len(e) > lim)
    IN [i \in DOMAIN over |-> [path |-> over[i], size |-> Len(over[i])]]

\* C11: every entry of a scan is classified against the value limit had when
\* StartScan was handled, whatever LimitChanged has made of limit since; the
\* scanner's limit never changes, and scan_limit holds that value as long as
\* the scan is the latest one started.
C11_LimitSnapshotted ==
    \A s \in Scans :
        hist[s].outcome # "none" =>
            /\ task[s].limit = hist[s].start_limit
            /\ hist[s].classified =
                   OverLimitOf(hist[s].enumerated, hist[s].start_limit)
            /\ s = numScans => scan_limit = hist[s].start_limit

\* C11 witness: a scan started with limit 5 is in the middle of the listing of
\* /r, with entries still to classify, and LimitChanged has made limit 7.
C11_Witness ==
    \E s \in Scans :
        /\ task[s].pc = "next_entry"
        /\ task[s].entries # << >>
        /\ hist[s].start_limit = 5
        /\ hist[s].classified # << >>
        /\ limit = 7
        /\ scan_limit = 5

\* C12: an AbortScan handled while cancellation_token is None (before any
\* scan, after the scan's ScanComplete, after an earlier AbortScan) changes
\* nothing of the session, cancels no token and puts no message in flight.
C12_AbortWithNoScanIsNoOp ==
    [][(~origin.idle_abort /\ origin'.idle_abort) =>
          /\ cancellation_token = None
          /\ origin' = [origin EXCEPT !.idle_abort = TRUE]
          /\ UNCHANGED << selecting, selected, cancellation_token,
                          paths_over_limit, scanned, limit_input, limit,
                          scan_limit, errors, cancelled, numScans, task, chan,
                          clock, hist, exportVars >>]_vars

\* C12 witness: a scan ran to exhaustion, update handled its messages, and an
\* AbortScan has been handled since with no token to take.
C12_Witness ==
    \E s \in Scans :
        /\ origin.idle_abort
        /\ hist[s].outcome = "Completed"
        /\ CompleteDelivered(s)
        /\ scanned = 4
        /\ paths_over_limit # << >>

\* A scan of a directory with no entries sent ScanUpdate { 0, [] } and then
\* ScanComplete, and nothing else.
EmptyRootSendsZero(s) ==
    (ReadDir(task[s].root).ok /\ ReadDir(task[s].root).names = << >>) =>
        hist[s].sent = << [type |-> "ScanUpdate", now_scanned |-> 0,
                           new_paths_over_limit |-> << >>],
                          ScanCompleteMsg >>

\* C13: every scan that starts ends: its ScanComplete is handled and
\* cancellation_token is None.  Unless it was cancelled, its stack is empty
\* and its last messages are a ScanUpdate, with the number of entries counted,
\* and ScanComplete; for a root with no entries that ScanUpdate has
\* now_scanned = 0 and no entries.
C13_ScanTerminates ==
    \A s \in Scans :
        (task[s].pc = "start") ~>
            /\ CompleteDelivered(s)
            /\ cancellation_token = None
            /\ \/ hist[s].outcome = "Cancelled"
               \/ /\ hist[s].outcome = "Completed"
                  /\ task[s].stack = << >>
                  /\ EndsWithFinalUpdate(s)
                  /\ LastScanned(s) = Len(hist[s].counted)
                  /\ EmptyRootSendsZero(s)

\* C13 witness: the scan of /e, which has no entries, ran to exhaustion before
\* the clock moved, and update has handled ScanUpdate { 0, [] } and
\* ScanComplete.
C13_Witness ==
    \E s \in Scans :
        /\ task[s].root = RootE
        /\ hist[s].outcome = "Completed"
        /\ CompleteDelivered(s)
        /\ Len(hist[s].sent) = 2
        /\ clock = 0
        /\ scanned = 0
        /\ cancellation_token = None

\* C14: the step that sends a ScanUpdate inside the loop is taken only when
\* the time read after the entry is more than 100 ms after last_update; the
\* message carries the entries classified since the previous ScanUpdate and
\* the number of entries counted, over_limit becomes empty and last_update
\* becomes the time read.  A step that counts an entry leaves over_limit and
\* last_update as they were.
C14_ThrottledUpdate ==
    [][\A s \in Scans :
          /\ (task[s].pc = "send_update" /\ task'[s].pc # task[s].pc
                 /\ task'[s].pc # "done") =>
                LET sent == hist'[s].sent
                    m == sent[Len(sent)]
                IN /\ (task[s].now - task[s].last_update) * TickMs > IntervalMs
                   /\ Len(sent) = Len(hist[s].sent) + 1
                   /\ m.type = "ScanUpdate"
                   /\ m.now_scanned = Len(hist[s].counted)
                   /\ Reported(s) \o m.new_paths_over_limit = hist[s].classified
                   /\ task'[s].over_limit = << >>
                   /\ task'[s].last_update = task[s].now
                   /\ task'[s].pc = "next_entry"
          /\ task'[s].scanned # task[s].scanned =>
                /\ task'[s].over_limit = task[s].over_limit
                /\ task'[s].last_update = task[s].last_update
                /\ task'[s].pc = "send_update" =>
                       /\ task'[s].now = clock'
                       /\ (clock' - task[s].last_update) * TickMs > IntervalMs
                /\ task'[s].pc # "send_update" => hist'[s].sent \in
                       {hist[s].sent,
                        Append(hist[s].sent,
                               ErrorMsg("metadata", task[s].entry_path))}]_vars

\* C14 witness: a scan has sent one ScanUpdate inside the loop, with entries
\* over the limit, after the clock had moved, and goes on with the listing.
C14_Witness ==
    \E s \in Scans :
        /\ task[s].pc = "next_entry"
        /\ Len(Updates(s)) = 1
        /\ Updates(s)[1].new_paths_over_limit # << >>
        /\ Updates(s)[1].now_scanned = task[s].scanned
        /\ task[s].last_update = clock
        /\ clock > 0
        /\ task[s].over_limit = << >>

\* A reader of CSV text.  ReadQuoted reads a field after its opening quote:
\* two quotes stand for one, a single quote ends the field.
RECURSIVE ReadQuoted(_, _, _)
ReadQuoted(text, i, acc) ==
    IF i > Len(text) THEN [ok |-> FALSE, field |-> acc, next |-> i]
    ELSE IF text[i] # "\"" THEN ReadQuoted(text, i + 1, Append(acc, text[i]))
    ELSE IF i < Len(text) /\ text[i + 1] = "\""
         THEN ReadQuoted(text, i + 2, Append(acc, "\""))
    ELSE [ok |-> TRUE, field |-> acc, next |-> i + 1]

RECURSIVE ReadDigits(_, _, _)
ReadDigits(text, i, acc) ==
    IF i <= Len(text) /\ IsDigit(text[i])
    THEN ReadDigits(text, i + 1, Append(acc, text[i]))
    ELSE [field |-> acc, next |-> i]

\* The records from position i on: a quoted field, a comma, digits, a newline.
RECURSIVE ReadRecords(_, _)
ReadRecords(text, i) ==
    IF i > Len(text) THEN [ok |-> TRUE, entries |-> << >>]
    ELSE IF text[i] # "\"" THEN [ok |-> FALSE, entries |-> << >>]
    ELSE LET q == ReadQuoted(text, i + 1, << >>)
         IN IF ~q.ok \/ q.next > Len(text) \/ text[q.next] # ","
            THEN [ok |-> FALSE, entries |-> << >>]
            ELSE LET d == ReadDigits(text, q.next + 1, << >>)
                 IN IF d.field = << >> \/ d.next > Len(text)
                         \/ text[d.next] # "\n"
                    THEN [ok |-> FALSE, entries |-> << >>]
                    ELSE LET rest == ReadRecords(text, d.next + 1)
                         IN [ok |-> rest.ok,
                             entries |->
                                 << [path |-> q.field,
                                     size |-> DecimalValue(d.field)] >>
                                     \o rest.entries]

ReadCsv(text) ==
    IF Len(text) >= 12 /\ SubSeq(text, 1, 12) =
           <<"P", "a", "t", "h", ",", "L", "e", "n", "g", "t", "h", "\n">>
    THEN ReadRecords(text, 13)
    ELSE [ok |-> FALSE, entries |-> << >>]

\* The entries a/b and a/"c", and the text they are rendered as:
\* Path,Length\n"a/b",3\n"a/""c""",5\n
ExampleEntries ==
    << [path |-> <<"a", "/", "b">>, size |-> 3],
       [path |-> <<"a", "/", "\"", "c", "\"">>, size |-> 5] >>

ExampleCsv ==
    <<"P", "a", "t", "h", ",", "L", "e", "n", "g", "t", "h", "\n",
      "\"", "a", "/", "b", "\"", ",", "3", "\n",
      "\"", "a", "/", "\"", "\"", "c", "\"", "\"", "\"", ",", "5", "\n">>

\* C15: the text an export builds starts with the header line, has one line
\* per entry, and read back as CSV (quoted field with doubled quotes, comma,
\* decimal number, newline) gives the exported entries, paths and lengths, in
\* order; a write that succeeds writes that text.  No entries render as the
\* header line alone.
C15_CsvRendering ==
    /\ RenderCsv(<< >>) =
           <<"P", "a", "t", "h", ",", "L", "e", "n", "g", "t", "h", "\n">>
    /\ RenderCsv(ExampleEntries) = ExampleCsv
    /\ (export_task.pc \in {"write", "complete", "done"}
           /\ export_task.file_handle # NoFile) =>
           LET text == export_task.csv_content
           IN /\ ReadCsv(text) =
                     [ok |-> TRUE, entries |-> export_task.paths_to_export]
              /\ Count(text, "\n") = Len(export_task.paths_to_export) + 1
              /\ export_task.result.ok => export_task.written = text

\* C15 witness: an export has written the text of two entries, one with a
\* double quote in its path, one with a length of two digits.
C15_Witness ==
    /\ export_task.written # << >>
    /\ Len(export_task.paths_to_export) = 2
    /\ \E i, j \in 1..2 :
           /\ "\"" \in Range(export_task.paths_to_export[i].path)
           /\ export_task.paths_to_export[j].size >= 10

\* C16: an export gives one CsvExportComplete at most, and none while its
\* future runs.  With no destination its result is Err("Export cancelled")
\* and nothing was written; after a failed write it is another Err; after a
\* write it is Ok with the number of entries and the destination.  Once the
\* message is handled exporting is false, export_message is the result's
\* text and export_success is true exactly for Ok.
C16_ExportEndsOnce ==
    /\ export_task.completions = IF export_task.pc = "done" THEN 1 ELSE 0
    /\ exporting <=> export_task.pc \in {"save_file", "write", "complete"}
    /\ export_task.writes <= 1
    /\ export_task.pc \in {"complete", "done"} =>
           /\ export_task.file_handle = NoFile =>
                  /\ export_task.result = [ok |-> FALSE, msg |-> "Export cancelled"]
                  /\ export_task.writes = 0
                  /\ export_task.written = << >>
           /\ export_task.file_handle # NoFile =>
                  /\ export_task.writes = 1
                  /\ export_task.written = << >> =>
                         /\ ~export_task.result.ok
                         /\ export_task.result.msg # "Export cancelled"
                  /\ export_task.written # << >> =>
                         /\ export_task.result.ok
                         /\ Len(export_task.paths_to_export) = 1 =>
                                export_task.result.msg =
                                    "Exported 1 paths to /out.csv"
                         /\ Len(export_task.paths_to_export) = 2 =>
                                export_task.result.msg =
                                    "Exported 2 paths to /out.csv"
    /\ export_task.pc = "done" =>
           /\ export_message = export_task.result.msg
           /\ export_success <=> export_task.result.ok

\* C16 witness: the write of an export failed and update has handled the
\* result.
C16_Witness ==
    /\ export_task.pc = "done"
    /\ export_task.writes = 1
    /\ export_task.written = << >>
    /\ ~exporting
    /\ ~export_success
    /\ export_message = "Failed to write CSV file: Permission denied"

\* C17: a step that changes limit_input sets limit to the number the text
\* stands for, or leaves limit alone when the text is no unsigned number, and
\* changes nothing else: not scan_limit, the results, the errors, the token,
\* the tasks or the export message.
C17_LimitChangedFrame ==
    [][limit_input' # limit_input =>
          /\ limit_input' \in
                 { <<"5">>, <<"+", "7">>, <<"x">>, << >>, <<"-", "5">> }
          /\ limit_input' = <<"5">> => limit' = 5
          /\ limit_input' = <<"+", "7">> => limit' = 7
          /\ limit_input' \in { <<"x">>, << >>, <<"-", "5">> } => limit' = limit
          /\ UNCHANGED << selecting, selected, cancellation_token,
                          paths_over_limit, scanned, scan_limit, errors,
                          cancelled, numScans, task, chan, clock, origin, hist,
                          exportVars >>]_vars

\* C17 witness: while a scan started with limit 5 runs, the limit field was
\* set to +7 and then to x: limit is still 7.
C17_Witness ==
    \E s \in Scans :
        /\ task[s].pc \in RunningPcs
        /\ hist[s].start_limit = 5
        /\ limit_input = <<"x">>
        /\ limit = 7
        /\ scan_limit = 5

\* C18: the ScanComplete of a scan takes and cancels no token but its own:
\* when it is handled, cancellation_token is None or the token of that scan.
C18_ScanCompleteEndsOwnScanOnly ==
    [][\A s \in Scans :
          (/\ chan[s] # << >>
           /\ Head(chan[s]).type = "ScanComplete"
           /\ chan'[s] = Tail(chan[s])) =>
              cancellation_token \in {None, s}]_vars

\* C19: the step that starts a scan is taken with a folder selected; after it
\* paths_over_limit and errors are empty, scanned is 0, cancellation_token is
\* a token never used before and not cancelled, scan_limit is limit, and the
\* new task has sent nothing.  A StartScan handled with no folder selected
\* changes nothing of the session and starts no task.
C19_StartScanResets ==
    [][/\ numScans' # numScans =>
             /\ selected # NoFolder
             /\ numScans' = numScans + 1
             /\ paths_over_limit' = << >>
             /\ errors' = << >>
             /\ scanned' = 0
             /\ cancellation_token' = numScans'
             /\ cancellation_token' # cancellation_token
             /\ task[numScans'].pc = "none"
             /\ ~cancelled'[numScans']
             /\ scan_limit' = limit
             /\ task'[numScans'].root = selected
             /\ chan'[numScans'] = << >>
             /\ hist'[numScans'].sent = << >>
             /\ UNCHANGED << selecting, selected, limit_input, limit >>
       /\ (~origin.idle_start /\ origin'.idle_start) =>
             /\ selected = NoFolder
             /\ UNCHANGED << selecting, selected, cancellation_token,
                             paths_over_limit, scanned, limit_input, limit,
                             scan_limit, errors, cancelled, numScans, task,
                             chan, clock, hist, exportVars >>
       /\ selected' = NoFolder => numScans' = 0]_vars

\* C19 witness: a second scan has just started, after update had handled every
\* message of a first scan that reported entries and an error: the results
\* and the errors are empty again.
C19_Witness ==
    /\ numScans = 2
    /\ task[2].pc = "start"
    /\ cancellation_token = 2
    /\ ~cancelled[2]
    /\ hist[1].outcome = "Completed"
    /\ CompleteDelivered(1)
    /\ Reported(1) # << >>
    /\ ErrorsSent(1) # << >>
    /\ paths_over_limit = << >>
    /\ errors = << >>
    /\ scanned = 0

====
